---- MODULE Spec2Model ----
(***************************************************************************)
(* Model of the archive serializer (epubService.generateEpub) of the       *)
(* AI book maker, together with the Editor handler that calls it.          *)
(*                                                                         *)
(* Strings that the code only copies are TLA+ strings.  Strings that the   *)
(* code takes apart (chapter prose, the book title) are sequences of       *)
(* one-character strings.  Archive paths are sequences of path segments:   *)
(* <<"OEBPS", "Text", "chapter0.xhtml">> is OEBPS/Text/chapter0.xhtml.     *)
(* XML documents are records holding the elements the template writes.     *)
(* JavaScript indices are 0-based; a chapter with JavaScript index i is    *)
(* element i + 1 of the TLA+ sequence.                                     *)
(***************************************************************************)
EXTENDS Integers, Sequences, FiniteSets, TLC

\* ------------------------------------------------------------------ bounds
\* longest chapter list of an exported Book
MaxChapters == 2
\* longest chapter prose (characters) of an exported Book
MaxLen == 1
\* longest prose given to the paragraph split on its own
MaxProse == 6
\* exports of the same Book in one behaviour
MaxRuns == 2

\* ------------------------------------------------------------- data model
NL == "\n"
Chars == {"a", NL}

Strings(n) == UNION {[1..k -> Chars] : k \in 0..n}

ChapterTitles == {"One", "Two"}

\* Book.title is taken apart by the download file name (whitespace runs).
BookTitles == {<<"M", "y", " ", " ", "B">>}

\* Book.coverImage?: string.  The string is kept in the pieces the cover
\* pattern looks at: what precedes the image subtype, the subtype, the
\* encoding marker and the payload.
NoCover == [scheme |-> "undefined", subtype |-> "", enc |-> "", payload |-> ""]
PlaceholderCover == [scheme |-> "https://picsum.photos/seed/", subtype |-> "", enc |-> "", payload |-> ""]
DataCover(sub, enc) == [scheme |-> "data:image/", subtype |-> sub, enc |-> enc, payload |-> "iVBORw0KGgo="]

\* generateBookCover returns data:<mimeType>;base64,<data> for any image type
\* the provider sends; the wizard falls back to the placeholder URL.
Covers ==
    {NoCover, PlaceholderCover,
     DataCover("png", ";base64,"), DataCover("jpeg", ";base64,"),
     DataCover("jpg", ";base64,"), DataCover("webp", ";base64,"),
     DataCover("png", ";utf8,")}

Chapter(i, t, c) ==
    [id |-> "ch-" \o ToString(i), title |-> t, summary |-> "s",
     content |-> c, isGenerated |-> TRUE]

ChapterLists(maxN, maxLen) ==
    UNION {[1..n -> ChapterTitles \X Strings(maxLen)] : n \in 0..maxN}

MkChapters(l) == [k \in 1..Len(l) |-> Chapter(k - 1, l[k][1], l[k][2])]

Books ==
    {[id |-> "b1", title |-> t, author |-> "AI & You", coverImage |-> cv,
      chapters |-> MkChapters(l)] :
        t \in BookTitles, cv \in Covers, l \in ChapterLists(MaxChapters, MaxLen)}

\* --------------------------------------------------- JavaScript primitives
\* String.prototype.split(sep) for a one-character separator: the pieces
\* between separators, empty pieces included; "" splits to [""].
RECURSIVE SplitFrom(_, _, _, _)
SplitFrom(s, sep, k, cur) ==
    IF k > Len(s) THEN <<cur>>
    ELSE IF s[k] = sep THEN <<cur>> \o SplitFrom(s, sep, k + 1, <<>>)
    ELSE SplitFrom(s, sep, k + 1, Append(cur, s[k]))

Split(s, sep) == SplitFrom(s, sep, 1, <<>>)

\* String.prototype.replace(/\s+/g, '_'): every maximal run of whitespace
\* becomes one underscore.
IsSpace(c) == c \in {" ", NL}

RECURSIVE ReplaceWs(_, _)
ReplaceWs(s, k) ==
    IF k > Len(s) THEN <<>>
    ELSE IF IsSpace(s[k])
         THEN (IF k > 1 /\ IsSpace(s[k - 1]) THEN <<>> ELSE <<"_">>) \o ReplaceWs(s, k + 1)
         ELSE <<s[k]>> \o ReplaceWs(s, k + 1)

\* ----------------------------------------------------------------- JSZip
\* A JSZip instance is the sequence of its entries in insertion order (the
\* key order of its files object).  An entry has a name, a dir flag, a date
\* (new Date() when it is added) and its data.
Names(zip) == {zip[k].name : k \in 1..Len(zip)}

ParentFolder(path) == SubSeq(path, 1, Len(path) - 1)

\* folderAdd: a folder is added, after its parents, unless it exists.
RECURSIVE FolderAdd(_, _, _)
FolderAdd(zip, path, now) ==
    IF path = <<>> \/ path \in Names(zip) THEN zip
    ELSE Append(FolderAdd(zip, ParentFolder(path), now),
                [name |-> path, dir |-> TRUE, date |-> now, data |-> [kind |-> "dir"]])

\* fileAdd: parent folders are created first; a name that exists keeps its
\* place and gets the new content, a new name goes last.
FileAdd(zip, path, data, now) ==
    LET z == FolderAdd(zip, ParentFolder(path), now)
        e == [name |-> path, dir |-> FALSE, date |-> now, data |-> data]
    IN  IF path \in Names(z)
        THEN [k \in 1..Len(z) |-> IF z[k].name = path THEN e ELSE z[k]]
        ELSE Append(z, e)

\* Decoding of the base64 payload that file(name, data, {base64: true}) does.
Base64Decode(payload) ==
    IF payload = "iVBORw0KGgo=" THEN <<137, 80, 78, 71, 13, 10, 26, 10>> ELSE <<>>

\* generateAsync({type: "blob"}): the entries in insertion order; no
\* compression option is given anywhere, so every entry is stored.
GenerateAsync(zip) ==
    [k \in 1..Len(zip) |->
        [name |-> zip[k].name, dir |-> zip[k].dir, date |-> zip[k].date,
         data |-> zip[k].data, compression |-> "STORE"]]

\* ------------------------------------------------- epubService.generateEpub
OEBPS == <<"OEBPS">>
StylesheetHref == <<"Styles", "style.css">>

\* Variant: the pattern accepts every image subtype and encoding marker.
CoverMatch_loose(coverImage) == coverImage.scheme = "data:image/"

\* book.coverImage.match(/^data:image\/(png|jpeg|jpg);base64,(.*)$/), after
\* the truthiness test of book.coverImage.
CoverMatch(coverImage) ==
    /\ coverImage.scheme = "data:image/"
    /\ coverImage.subtype \in {"png", "jpeg", "jpg"}
    /\ coverImage.enc = ";base64,"

\* coverFilename: "" when no cover is written.
CoverFilename(coverImage) ==
    IF CoverMatch(coverImage)
    THEN "cover." \o (IF coverImage.subtype = "jpeg" THEN "jpg" ELSE coverImage.subtype)
    ELSE ""

CoverExt(coverFilename) == IF coverFilename = "cover.png" THEN "png" ELSE "jpg"

\* chapter.content.split('\n').map(p => `<p>${p}</p>`)
Paragraphs(content) ==
    LET segs == Split(content, NL)
    IN  [k \in 1..Len(segs) |-> [tag |-> "p", text |-> segs[k]]]

\* The chapter document written for one chapter.
ChapterDocument(chapter) ==
    [kind |-> "xhtml", title |-> chapter.title, stylesheet |-> StylesheetHref,
     h1 |-> chapter.title, body |-> Paragraphs(chapter.content)]

ChapterFile(i) == "chapter" \o ToString(i) \o ".xhtml"

\* book.chapters.forEach: Text/chapter<index>.xhtml for every chapter in turn.
RECURSIVE AddChapters(_, _, _, _)
AddChapters(zip, chapters, k, now) ==
    IF k > Len(chapters) THEN zip
    ELSE AddChapters(FileAdd(FolderAdd(zip, OEBPS \o <<"Text">>, now),
                             OEBPS \o <<"Text", ChapterFile(k - 1)>>,
                             ChapterDocument(chapters[k]), now),
                     chapters, k + 1, now)

CoverHtml(coverFilename) ==
    [kind |-> "xhtml", title |-> "Cover", stylesheet |-> StylesheetHref,
     h1 |-> "", body |-> <<[tag |-> "img", src |-> <<"..", "Images", coverFilename>>]>>]

\* Variant: the last chapter is left out of the manifest (loop bound off by one).
manifestItems_short(chapters) ==
    [k \in 1..(Len(chapters) - 1) |->
        [id |-> "chap" \o ToString(k - 1), href |-> <<"Text", ChapterFile(k - 1)>>,
         mediaType |-> "application/xhtml+xml"]]

manifestItems(chapters) ==
    [k \in 1..Len(chapters) |->
        [id |-> "chap" \o ToString(k - 1), href |-> <<"Text", ChapterFile(k - 1)>>,
         mediaType |-> "application/xhtml+xml"]]

\* Variant: the itemrefs are emitted last chapter first.
spineItems_reversed(chapters) ==
    [k \in 1..Len(chapters) |-> "chap" \o ToString(Len(chapters) - k)]

spineItems(chapters) == [k \in 1..Len(chapters) |-> "chap" \o ToString(k - 1)]

coverManifest(coverFilename) ==
    IF coverFilename # ""
    THEN << [id |-> "cover-image", href |-> <<"Images", coverFilename>>,
             mediaType |-> IF CoverExt(coverFilename) = "png" THEN "image/png" ELSE "image/jpeg"],
            [id |-> "cover", href |-> <<"Text", "cover.xhtml">>,
             mediaType |-> "application/xhtml+xml"] >>
    ELSE <<>>

\* Variant: the cover document is written but never put in the spine.
coverSpine_none(coverFilename) == <<>>

coverSpine(coverFilename) == IF coverFilename # "" THEN <<"cover">> ELSE <<>>

\* content.opf: metadata, manifest and spine as the template lays them out.
Opf(book, coverFilename) ==
    [kind |-> "opf",
     metadata |-> [title |-> book.title, creator |-> book.author, language |-> "en",
                   cover |-> "cover-image"],
     manifest |-> << [id |-> "ncx", href |-> <<"toc.ncx">>, mediaType |-> "application/x-dtbncx+xml"],
                     [id |-> "style", href |-> StylesheetHref, mediaType |-> "text/css"] >>
                  \o coverManifest(coverFilename) \o manifestItems(book.chapters),
     toc |-> "ncx",
     spine |-> coverSpine(coverFilename) \o spineItems(book.chapters)]

\* Variant: playOrder counts from 0 like the chapter file names.
navPoints_zeroBased(chapters) ==
    [k \in 1..Len(chapters) |->
        [id |-> "navPoint-" \o ToString(k), playOrder |-> k - 1,
         label |-> chapters[k].title, src |-> <<"Text", ChapterFile(k - 1)>>]]

\* Variant: a book without chapters gets a placeholder nav-point, so that the
\* navMap is never empty.
navPoints_atLeastOne(chapters) ==
    IF chapters = <<>>
    THEN <<[id |-> "navPoint-1", playOrder |-> 1, label |-> "Start",
            src |-> <<"Text", ChapterFile(0)>>]>>
    ELSE [k \in 1..Len(chapters) |->
            [id |-> "navPoint-" \o ToString(k), playOrder |-> k,
             label |-> chapters[k].title, src |-> <<"Text", ChapterFile(k - 1)>>]]

navPoints(chapters) ==
    [k \in 1..Len(chapters) |->
        [id |-> "navPoint-" \o ToString(k), playOrder |-> k,
         label |-> chapters[k].title, src |-> <<"Text", ChapterFile(k - 1)>>]]

Ncx(book) ==
    [kind |-> "ncx", uid |-> book.id, docTitle |-> book.title,
     navMap |-> navPoints(book.chapters)]

\* Variant: the navigation document takes its unique id from the clock.
AddNcx_stamped(z, book, now) ==
    FileAdd(z, OEBPS \o <<"toc.ncx">>, [Ncx(book) EXCEPT !.uid = "t" \o ToString(now)], now)

\* folder?.file("toc.ncx", ncx)
AddNcx(z, book, now) == FileAdd(z, OEBPS \o <<"toc.ncx">>, Ncx(book), now)

\* book.chapters.forEach(...), from the first chapter.
AddChapterFiles(z, chapters, now) == AddChapters(z, chapters, 1, now)

\* Steps 1 to 7 of generateEpub: the JSZip instance just before generateAsync.
BuildZip(book, now) ==
    LET cf == CoverFilename(book.coverImage)
        z0 == FolderAdd(<<>>, OEBPS, now)
        z1 == FileAdd(z0, <<"mimetype">>, [kind |-> "text", text |-> "application/epub+zip"], now)
        z2 == FileAdd(FolderAdd(z1, <<"META-INF">>, now), <<"META-INF", "container.xml">>,
                      [kind |-> "container", rootfile |-> OEBPS \o <<"content.opf">>], now)
        z3 == FileAdd(FolderAdd(z2, OEBPS \o <<"Styles">>, now), OEBPS \o StylesheetHref,
                      [kind |-> "css"], now)
        z4 == IF cf # ""
              THEN FileAdd(FolderAdd(z3, OEBPS \o <<"Images">>, now), OEBPS \o <<"Images", cf>>,
                           [kind |-> "binary", bytes |-> Base64Decode(book.coverImage.payload)], now)
              ELSE z3
        z5 == AddChapterFiles(z4, book.chapters, now)
        z6 == IF cf # ""
              THEN FileAdd(FolderAdd(z5, OEBPS \o <<"Text">>, now), OEBPS \o <<"Text", "cover.xhtml">>,
                           CoverHtml(cf), now)
              ELSE z5
        z7 == FileAdd(z6, OEBPS \o <<"content.opf">>, Opf(book, cf), now)
    IN  AddNcx(z7, book, now)

\* saveAs(blob, `${book.title.replace(/\s+/g, '_')}.epub`)
DownloadName(title) == ReplaceWs(title, 1) \o <<".", "e", "p", "u", "b">>

\* ------------------------------------------------------------------ state
VARIABLES
    book,          \* the Book open in the Editor (prop of the component)
    pc,            \* "idle", or "await" while generateAsync is pending
    isExporting,   \* Editor state flag
    zip,           \* the JSZip instance of the pending generateEpub call
    clock,         \* the wall clock read by new Date()
    saved,         \* downloads handed to saveAs so far, oldest first
    alerts,        \* number of alert("EPUB Export failed.") calls so far
    \* BookWizard and the services it calls
    apiKey,        \* TRUE iff the API_KEY of the build is a non-empty string
    structScript,  \* what the provider answers to the 1st, 2nd, ... structure request
    structCalls,   \* structure requests sent to the provider so far
    status,        \* BookWizard status: "idle", "generating", "complete", "error"
    wpc,           \* the await handleSubmit is suspended at, "idle" or "done"
    coverPromise,  \* coverPromise: its state and the value it resolved to
    liveCover,     \* BookWizard liveCover state
    partialBook,   \* result of generateBookStructure
    idx,           \* loop variable i of the chapter loop
    written,       \* fullyWrittenChapters
    replies,       \* what the provider answered to each chapter request, in order
    requests,      \* requests made to geminiService by handleSubmit, in order
    progress,      \* the setProgressPercent / setProgressStep updates, in order
    thrown,        \* message of the error caught by handleSubmit, "" if none
    errorDetails,  \* BookWizard errorDetails state
    generatedBook  \* BookWizard generatedBook state: <<>> or <<book>>

exportVars == <<book, pc, isExporting, zip, clock, saved, alerts>>

wizardVars ==
    <<apiKey, structScript, structCalls, status, wpc, coverPromise, liveCover, partialBook,
      idx, written, replies, requests, progress, thrown, errorDetails, generatedBook>>

VARIABLES
    \* App
    currentView,         \* App currentView
    leftAt,              \* chapter requests made when the user left the wizard, -1 if they did not
    activeBook,          \* the Book of App's list that is open: <<>> or <<book>>
    \* Editor
    activeChapterIndex,  \* Editor activeChapterIndex state
    isGenerating,        \* Editor state flag
    isGeneratingCover,   \* Editor state flag
    isRewriting,         \* Editor state flag
    generating,          \* the generateContent call in flight: <<>> or <<what it closed over>>
    regenerating,        \* the handleRegenerateCover call in flight, likewise
    rewriting,           \* the handleRewrite call in flight, likewise
    updates,             \* the Books passed to onUpdateBook so far, oldest first
    nextRef,             \* chapter objects created so far
    selectionRange,      \* Editor selectionRange state: <<>> (null) or <<start, end>>
    returned             \* what generateChapterContent last resolved to for the Editor

navVars == <<currentView, leftAt>>

editorVars ==
    <<activeBook, activeChapterIndex, isGenerating, isGeneratingCover, isRewriting,
      generating, regenerating, rewriting, updates, nextRef, selectionRange, returned>>

vars == <<exportVars, wizardVars, navVars, editorVars>>

\* The view App shows, the wizard not left.
ViewIs(view) == currentView = view /\ leftAt = -1

\* No Book handed to App and the Editor's useState initial values.
NoActiveBook ==
    /\ activeBook = <<>>
    /\ activeChapterIndex = 0
    /\ isGenerating = FALSE
    /\ isGeneratingCover = FALSE
    /\ isRewriting = FALSE
    /\ generating = <<>>
    /\ regenerating = <<>>
    /\ rewriting = <<>>
    /\ updates = <<>>
    /\ nextRef = 0
    /\ selectionRange = <<>>
    /\ returned = ""

NoPartialBook == [title |-> "", author |-> "", chapters |-> <<>>]

\* BookWizard as mounted: useState initial values, nothing requested yet.
WizardMounted ==
    /\ structCalls = 0
    /\ status = "idle"
    /\ wpc = "idle"
    /\ coverPromise = [state |-> "none", value |-> NoCover]
    /\ liveCover = NoCover
    /\ partialBook = NoPartialBook
    /\ idx = 0
    /\ written = <<>>
    /\ replies = <<>>
    /\ requests = <<>>
    /\ progress = <<>>
    /\ thrown = ""
    /\ errorDetails = ""
    /\ generatedBook = <<>>

\* The Editor with no export started.
EditorIdle ==
    /\ pc = "idle"
    /\ isExporting = FALSE
    /\ zip = <<>>
    /\ clock = 0
    /\ saved = <<>>
    /\ alerts = 0

Init ==
    /\ book \in Books
    /\ EditorIdle
    /\ apiKey = TRUE
    /\ structScript = <<>>
    /\ WizardMounted
    /\ ViewIs("EDITOR")
    /\ NoActiveBook

Reverse(seq) == [k \in 1..Len(seq) |-> seq[Len(seq) + 1 - k]]

\* Variant: the chapter array is reversed in place before it is walked.
handleExportEpub_reversing ==
    /\ pc = "idle"
    /\ Len(saved) < MaxRuns
    /\ isExporting' = TRUE
    /\ book' = [book EXCEPT !.chapters = Reverse(book.chapters)]
    /\ zip' = BuildZip(book', clock)
    /\ pc' = "await"
    /\ clock' = clock + 1
    /\ UNCHANGED <<saved, alerts>>
    /\ UNCHANGED wizardVars
    /\ UNCHANGED <<navVars, editorVars>>

\* Editor.handleExportEpub up to the await inside generateEpub.
handleExportEpub ==
    /\ pc = "idle"
    /\ Len(saved) < MaxRuns
    /\ isExporting' = TRUE
    /\ zip' = BuildZip(book, clock)
    /\ pc' = "await"
    /\ clock' = clock + 1
    /\ UNCHANGED <<book, saved, alerts>>
    /\ UNCHANGED wizardVars
    /\ UNCHANGED <<navVars, editorVars>>

\* generateAsync resolves: saveAs, then the finally block of the handler.
generateAsyncResolved ==
    /\ pc = "await"
    /\ saved' = Append(saved, [book |-> book, blob |-> GenerateAsync(zip),
                               name |-> DownloadName(book.title)])
    /\ isExporting' = FALSE
    /\ pc' = "idle"
    /\ clock' = clock + 1
    /\ UNCHANGED <<book, zip, alerts>>
    /\ UNCHANGED wizardVars
    /\ UNCHANGED <<navVars, editorVars>>

Next == handleExportEpub \/ generateAsyncResolved

Spec == Init /\ [][Next]_vars

TypeOK ==
    /\ book \in Books
    /\ pc \in {"idle", "await"}
    /\ isExporting \in BOOLEAN
    /\ Len(saved) <= MaxRuns

\* Paragraph split on its own: one chapter, prose of up to MaxProse characters.
ProseBooks ==
    {[id |-> "b1", title |-> <<"E", "c", "h", "o">>, author |-> "AI & You",
      coverImage |-> NoCover, chapters |-> MkChapters(<<<<"One", c>>>>)] :
        c \in Strings(MaxProse)}

InitProse ==
    /\ book \in ProseBooks
    /\ EditorIdle
    /\ apiKey = TRUE
    /\ structScript = <<>>
    /\ WizardMounted
    /\ ViewIs("EDITOR")
    /\ NoActiveBook

SpecProse == InitProse /\ [][Next]_vars

\* generateAsync rejects or saveAs throws (the platform cannot make or save
\* the blob): the catch and finally blocks of handleExportEpub.
generateAsyncRejected ==
    /\ pc = "await"
    /\ clock < 2 * MaxRuns
    /\ alerts' = alerts + 1
    /\ isExporting' = FALSE
    /\ pc' = "idle"
    /\ clock' = clock + 1
    /\ UNCHANGED <<book, zip, saved>>
    /\ UNCHANGED wizardVars
    /\ UNCHANGED <<navVars, editorVars>>

\* Exports that may fail: a Book without chapters and one with two chapters,
\* under every cover value.
OutcomeBooks ==
    {[id |-> "b1", title |-> t, author |-> "AI & You", coverImage |-> cv,
      chapters |-> MkChapters(l)] :
        t \in BookTitles, cv \in Covers,
        l \in {<<>>, << <<"One", <<"a">>>>, <<"Two", <<>>>> >>}}

InitOutcomes ==
    /\ book \in OutcomeBooks
    /\ EditorIdle
    /\ apiKey = TRUE
    /\ structScript = <<>>
    /\ WizardMounted
    /\ ViewIs("EDITOR")
    /\ NoActiveBook

NextOutcomes == handleExportEpub \/ generateAsyncResolved \/ generateAsyncRejected

SpecOutcomes == InitOutcomes /\ [][NextOutcomes]_vars

\* ------------------------------------------------------------ geminiService
\* s.includes(marker)
Includes(s, marker) ==
    \E k \in 1..(Len(s) - Len(marker) + 1) : SubSeq(s, k, k + Len(marker) - 1) = marker

\* a || b on strings
OrElse(a, b) == IF a # "" THEN a ELSE b

\* Content shorter than this is refused by Editor.generateContent.
MinContentLength == 50

\* longest chapter list of a structure response
MaxOutline == 3

MissingKeyMessage == "API Key is missing"

\* Messages of errors thrown by the provider call.
ProviderErrors ==
    {"AUTH_ERROR: permission denied", "QUOTA exceeded for this key",
     "429 Too Many Requests", "fetch failed"}

StructReply(kind, n, message) == [kind |-> kind, n |-> n, message |-> message]

\* What the provider can answer to a structure request: JSON with n chapter
\* outlines, JSON without a chapters array, no text, text that is not JSON,
\* or an error.
StructReplies ==
    {StructReply("json", n, "") : n \in 0..MaxOutline}
    \cup {StructReply("nochapters", 0, ""), StructReply("notext", 0, ""),
          StructReply("badjson", 0, "")}
    \cup {StructReply("throws", 0, m) : m \in ProviderErrors}

\* The answers to successive structure requests: one answer, or two
\* transient failures followed by a good answer.
StructScripts ==
    {<<r>> : r \in StructReplies}
    \cup {<<StructReply("throws", 0, "fetch failed"), StructReply("throws", 0, "fetch failed"),
            StructReply("json", MaxOutline, "")>>}

\* data.chapters.map((c, index) => ({id, title, summary, content: "", isGenerated: false}))
OutlineChapter(index, now) ==
    [id |-> "ch-" \o ToString(index) \o "-" \o ToString(now),
     title |-> "Title " \o ToString(index + 1),
     summary |-> "Summary " \o ToString(index + 1),
     content |-> "", isGenerated |-> FALSE]

Thrown(message) == [ok |-> FALSE, error |-> message, book |-> NoPartialBook]

\* Variant: the catch block throws a new error of its own.
StructureCatch_wrapping(message) == "Book structure generation failed"

\* catch (error) { console.error(...); throw error; }
StructureCatch(message) == message

\* generateBookStructure: the value it resolves to, or the message of the
\* error it rejects with, for one answer of the provider.
generateBookStructure(hasKey, reply, now) ==
    IF ~hasKey THEN Thrown(MissingKeyMessage)
    ELSE IF reply.kind = "throws" THEN Thrown(StructureCatch(reply.message))
    ELSE IF reply.kind = "notext" THEN Thrown(StructureCatch("No content generated"))
    ELSE IF reply.kind = "badjson" THEN Thrown(StructureCatch("Unexpected token < in JSON at position 0"))
    ELSE IF reply.kind = "nochapters" THEN Thrown(StructureCatch("Invalid book structure generated"))
    ELSE [ok |-> TRUE, error |-> "",
          book |-> [title |-> "Echo Revised", author |-> "A. Writer",
                    chapters |-> [k \in 1..reply.n |-> OutlineChapter(k - 1, now)]]]

LongProse == "The rain had not stopped for three days when the letter finally arrived."

\* What the provider can answer to a chapter request: prose, prose that is
\* too short, an empty text, or an error.
ChapterReplies ==
    {[ok |-> TRUE, text |-> LongProse], [ok |-> TRUE, text |-> "Too short."],
     [ok |-> TRUE, text |-> ""], [ok |-> FALSE, text |-> ""]}

\* Variant: the text of the response is returned as it is, a failed call
\* giving the empty string.
generateChapterContent_bare(hasKey, reply) ==
    IF ~hasKey THEN "API Key missing. Mock content generated." ELSE reply.text

\* generateChapterContent: the string it resolves to.
generateChapterContent(hasKey, reply) ==
    IF ~hasKey THEN "API Key missing. Mock content generated."
    ELSE IF ~reply.ok THEN "Failed to generate content. Please try again."
    ELSE OrElse(reply.text, "Content generation returned empty.")

\* What the provider can answer to a cover request: an image part, no image
\* part, or an error.
CoverReplies == {"image/png", "no image", "error"}

\* generateBookCover: the data URI it resolves to, or undefined.
generateBookCover(hasKey, reply) ==
    IF hasKey /\ reply = "image/png" THEN DataCover("png", ";base64,") ELSE NoCover

\* ---------------------------------------------------- BookWizard.handleSubmit
PercentUpdate(p, i) == [kind |-> "percent", percent |-> p, label |-> "", chapter |-> i]

StepUpdate(label, i) == [kind |-> "step", percent |-> 0, label |-> label, chapter |-> i]

Request(op, i, prev) == [op |-> op, chapter |-> i, prev |-> prev]

\* Variant: the share of finished chapters counts the current one and is
\* spread over 80 points.
ChapterPercent_overshoot(i, total) == 20 + (((i + 1) * 80) \div total)

\* 20 + Math.floor((i / total) * 70); for the totals of the model the
\* floating-point product and the integer quotient have the same floor.
ChapterPercent(i, total) == 20 + ((i * 70) \div total)

\* Variant: the first chapter is announced by the structure step and gets
\* no update of its own.
ChapterProgress_skipFirst(i, total, title) ==
    IF i = 0 THEN <<>>
    ELSE <<PercentUpdate(ChapterPercent(i, total), i),
           StepUpdate("Writing Chapter " \o ToString(i + 1) \o ": " \o title, i)>>

\* The progress updates at the top of loop iteration i.
ChapterProgress(i, total, title) ==
    <<PercentUpdate(ChapterPercent(i, total), i),
      StepUpdate("Writing Chapter " \o ToString(i + 1) \o ": " \o title, i)>>

\* Variant: the continuity context is always the summary of the first chapter.
ChapterRequest_firstSummary(pb, i) ==
    Request("chapter", i, IF i > 0 THEN pb.chapters[1].summary ELSE "undefined")

\* Variant: the chapters are requested last outline entry first.
ChapterRequest_lastFirst(pb, i) ==
    Request("chapter", Len(pb.chapters) - 1 - i,
            IF i > 0 THEN pb.chapters[i].summary ELSE "undefined")

\* The generateChapterContent call of loop iteration i.
ChapterRequest(pb, i) ==
    Request("chapter", i, IF i > 0 THEN pb.chapters[i].summary ELSE "undefined")

BindingProgress == <<StepUpdate("Binding pages...", -1), PercentUpdate(95, -1)>>

\* Variant: the cover of the new Book is the generated one or nothing.
NewBookCover_noFallback(coverImage, live) == coverImage

\* coverImage || liveCover || `https://picsum.photos/seed/${Date.now()}/600/900`
NewBookCover(coverImage, live) ==
    IF coverImage # NoCover THEN coverImage
    ELSE IF live # NoCover THEN live
    ELSE PlaceholderCover

FormTitle == "Echo"

NewBook(pb, chapters, coverImage, live) ==
    [id |-> "uuid", title |-> OrElse(pb.title, FormTitle), author |-> OrElse(pb.author, "AI & You"),
     coverImage |-> NewBookCover(coverImage, live), chapters |-> chapters]

AuthDetails == "API Key is missing or invalid. The application is not configured correctly."
QuotaDetails == "Google API Quota exceeded. Please try again later or use a different key."
GenericDetails == "Failed to generate book. Please check your internet connection."

\* The classification in the catch block of handleSubmit.
Classify(msg) ==
    IF Includes(msg, "API_KEY_MISSING") \/ Includes(msg, "AUTH_ERROR") THEN AuthDetails
    ELSE IF Includes(msg, "QUOTA") \/ Includes(msg, "429") THEN QuotaDetails
    ELSE GenericDetails

\* handleSubmit up to its first await: the cover request is started and not
\* awaited, the structure request is awaited.
handleSubmit ==
    /\ currentView = "WIZARD"
    /\ status = "idle"
    /\ wpc = "idle"
    /\ status' = "generating"
    /\ errorDetails' = ""
    /\ progress' = <<StepUpdate("Designing cover art...", -1), PercentUpdate(5, -1),
                     StepUpdate("Architecting story structure...", -1), PercentUpdate(15, -1)>>
    /\ coverPromise' = [state |-> "pending", value |-> NoCover]
    /\ requests' = <<Request("cover", -1, ""), Request("structure", -1, "")>>
    /\ structCalls' = IF apiKey THEN 1 ELSE 0
    /\ wpc' = "structure"
    /\ UNCHANGED <<apiKey, structScript, liveCover, partialBook, idx, written, replies,
                   thrown, generatedBook>>
    /\ UNCHANGED exportVars
    /\ UNCHANGED <<navVars, editorVars>>

\* generateBookCover settles and the then-callback of coverPromise runs.
coverSettled ==
    /\ coverPromise.state = "pending"
    /\ \E reply \in CoverReplies :
          LET url == generateBookCover(apiKey, reply)
          IN  /\ coverPromise' = [state |-> "resolved", value |-> url]
              /\ liveCover' = IF url # NoCover THEN url ELSE liveCover
    /\ UNCHANGED <<apiKey, structScript, structCalls, status, wpc, partialBook, idx, written,
                   replies, requests, progress, thrown, errorDetails, generatedBook>>
    /\ UNCHANGED exportVars
    /\ UNCHANGED <<navVars, editorVars>>

\* generateBookStructure settles: either the catch block of handleSubmit, or
\* the code up to the next await (the first chapter request, or the cover
\* join when there is no chapter).
structureSettled ==
    /\ wpc = "structure"
    /\ LET res == generateBookStructure(apiKey, structScript[1], clock)
           total == Len(res.book.chapters)
       IN  IF ~res.ok
           THEN /\ thrown' = res.error
                /\ status' = "error"
                /\ errorDetails' = Classify(res.error)
                /\ wpc' = "done"
                /\ UNCHANGED <<partialBook, progress, requests>>
           ELSE /\ partialBook' = res.book
                /\ IF total > 0
                   THEN /\ progress' = progress \o ChapterProgress(0, total, res.book.chapters[1].title)
                        /\ requests' = Append(requests, ChapterRequest(res.book, 0))
                        /\ wpc' = "chapter"
                   ELSE /\ progress' = progress \o BindingProgress
                        /\ requests' = requests
                        /\ wpc' = "cover"
                /\ UNCHANGED <<thrown, status, errorDetails>>
    /\ UNCHANGED <<apiKey, structScript, structCalls, coverPromise, liveCover, idx, written,
                   replies, generatedBook>>
    /\ UNCHANGED exportVars
    /\ UNCHANGED <<navVars, editorVars>>

\* generateChapterContent settles for chapter idx: the chapter is pushed and
\* the loop goes on to the next request, or to the cover join.
chapterSettled ==
    /\ wpc = "chapter"
    /\ \E reply \in ChapterReplies :
          LET total == Len(partialBook.chapters)
              content == generateChapterContent(apiKey, reply)
          IN  /\ written' = Append(written, [partialBook.chapters[idx + 1] EXCEPT
                                                !.content = content, !.isGenerated = TRUE])
              /\ replies' = Append(replies, reply)
              /\ idx' = idx + 1
              /\ IF idx + 1 < total
                 THEN /\ progress' = progress \o
                            ChapterProgress(idx + 1, total, partialBook.chapters[idx + 2].title)
                      /\ requests' = Append(requests, ChapterRequest(partialBook, idx + 1))
                      /\ wpc' = "chapter"
                 ELSE /\ progress' = progress \o BindingProgress
                      /\ requests' = requests
                      /\ wpc' = "cover"
    /\ UNCHANGED <<apiKey, structScript, structCalls, status, coverPromise, liveCover,
                   partialBook, thrown, errorDetails, generatedBook>>
    /\ UNCHANGED exportVars
    /\ UNCHANGED <<navVars, editorVars>>

\* Variant: the Book is assembled without waiting for the cover request.
coverJoined_noJoin ==
    /\ wpc = "cover"
    /\ generatedBook' = <<NewBook(partialBook, written, coverPromise.value, NoCover)>>
    /\ progress' = Append(progress, PercentUpdate(100, -1))
    /\ status' = "complete"
    /\ wpc' = "done"
    /\ UNCHANGED <<apiKey, structScript, structCalls, coverPromise, liveCover, partialBook,
                   idx, written, replies, requests, thrown, errorDetails>>
    /\ UNCHANGED exportVars
    /\ UNCHANGED <<navVars, editorVars>>

\* await coverPromise returns: the Book is assembled.  The liveCover that
\* handleSubmit reads is the one of the render that created it, null.
coverJoined ==
    /\ wpc = "cover"
    /\ coverPromise.state = "resolved"
    /\ generatedBook' = <<NewBook(partialBook, written, coverPromise.value, NoCover)>>
    /\ progress' = Append(progress, PercentUpdate(100, -1))
    /\ status' = "complete"
    /\ wpc' = "done"
    /\ UNCHANGED <<apiKey, structScript, structCalls, coverPromise, liveCover, partialBook,
                   idx, written, replies, requests, thrown, errorDetails>>
    /\ UNCHANGED exportVars
    /\ UNCHANGED <<navVars, editorVars>>

InitWizard ==
    /\ book \in {b \in Books : b.chapters = <<>> /\ b.coverImage = NoCover}
    /\ EditorIdle
    /\ apiKey \in BOOLEAN
    /\ structScript \in StructScripts
    /\ WizardMounted
    /\ ViewIs("WIZARD")
    /\ NoActiveBook

NextWizard ==
    handleSubmit \/ coverSettled \/ structureSettled \/ chapterSettled \/ coverJoined

SpecWizard == InitWizard /\ [][NextWizard]_vars

\* The user picks another view in the navigation of AppShell while a run is
\* in progress; handleSubmit reads neither the view nor any other signal.
setView ==
    /\ currentView = "WIZARD"
    /\ status = "generating"
    /\ currentView' = "LANDING"
    /\ leftAt' = Len(SelectSeq(requests, LAMBDA q : q.op = "chapter"))
    /\ UNCHANGED <<exportVars, wizardVars, editorVars>>

NextLeave == NextWizard \/ setView

SpecLeave == InitWizard /\ [][NextLeave]_vars

\* ---------------------------------------------------------- App and Editor
\* most Books handed to onUpdateBook in one Editor session
MaxUpdates == 2

\* The chapters of a Book as objects: ref is the identity of the object, so
\* that an assignment to a field of one object shows in every array holding it.
WithRefs(b) ==
    [b EXCEPT !.chapters = [k \in 1..Len(b.chapters) |->
        [id |-> b.chapters[k].id, title |-> b.chapters[k].title,
         summary |-> b.chapters[k].summary, content |-> b.chapters[k].content,
         isGenerated |-> b.chapters[k].isGenerated, ref |-> k]]]

\* s.trim(), for the whitespace of the model's strings
RECURSIVE Trim(_)
Trim(str) ==
    IF Len(str) > 0 /\ SubSeq(str, 1, 1) = " " THEN Trim(SubSeq(str, 2, Len(str)))
    ELSE IF Len(str) > 0 /\ SubSeq(str, Len(str), Len(str)) = " "
         THEN Trim(SubSeq(str, 1, Len(str) - 1))
    ELSE str

Min(a, b) == IF a < b THEN a ELSE b

\* s.substring(start, end) for 0 <= start <= end
Substring(str, start, end) == SubSeq(str, Min(start, Len(str)) + 1, Min(end, Len(str)))

\* The Editor shows its controls only for a Book with chapters.
EditorShown ==
    currentView = "EDITOR" /\ activeBook # <<>> /\ Len(activeBook[1].chapters) > 0

\* activeChapter of the current render
ActiveChapter == activeBook[1].chapters[activeChapterIndex + 1]

\* isChapterEmpty: the textarea is replaced by the "chapter is empty" panel.
isChapterEmpty(content) == content = "" \/ Len(Trim(content)) < MinContentLength

\* Variant: the new chapter list holds the edited chapter only.
handleContentChange_only(b, index, newContent, ref) ==
    [b EXCEPT !.chapters =
        <<[b.chapters[index + 1] EXCEPT !.content = newContent, !.ref = ref]>>]

\* handleContentChange of a render that saw Book b and active index: the
\* Book it passes to onUpdateBook.  The chapter is a new object.
handleContentChange(b, index, newContent, ref) ==
    [b EXCEPT !.chapters[index + 1] = [@ EXCEPT !.content = newContent, !.ref = ref]]

\* obj.isGenerated = true on the chapter object ref, as seen through a Book
\* whose chapter array holds that object.
MarkGenerated(b, ref) ==
    [b EXCEPT !.chapters = [k \in 1..Len(b.chapters) |->
        IF b.chapters[k].ref = ref THEN [b.chapters[k] EXCEPT !.isGenerated = TRUE]
        ELSE b.chapters[k]]]

\* The same through the Book a pending call closed over.
MarkInCall(call, ref) ==
    [k \in 1..Len(call) |-> [call[k] EXCEPT !.book = MarkGenerated(call[k].book, ref)]]

\* Variant: only an empty string is refused.
ContentRefused_emptyOnly(content) == content = ""

\* !content || content.length < 50
ContentRefused(content) == content = "" \/ Len(content) < MinContentLength

\* What the user can leave in the textarea.
TypedTexts == {LongProse \o " And then it was gone.", "Notes."}

\* What the user can select in the textarea.
Selections == {<<0, 3>>}

\* What the provider can answer to a rewrite request.
RewriteReplies == {[ok |-> TRUE, text |-> "Rain"], [ok |-> TRUE, text |-> ""], [ok |-> FALSE, text |-> ""]}

\* rewriteText: the string it resolves to.
rewriteText(hasKey, selectedText, reply) ==
    IF ~hasKey THEN selectedText
    ELSE IF ~reply.ok THEN selectedText
    ELSE OrElse(reply.text, selectedText)

\* The controls of the Editor can be reached: the rewrite modal, which stays
\* open while the rewrite request is pending, lies over all of them.
ControlsReachable == EditorShown /\ ~isRewriting

\* onChange of the textarea, which is rendered unless the chapter is empty
\* and lies under the "Crafting" overlay while a generation is pending.
onChange ==
    /\ ControlsReachable
    /\ ~isGenerating
    /\ ~isChapterEmpty(ActiveChapter.content)
    /\ Len(updates) < MaxUpdates
    /\ \E text \in TypedTexts :
          LET updated == handleContentChange(activeBook[1], activeChapterIndex, text, nextRef + 1)
          IN  /\ activeBook' = <<updated>>
              /\ updates' = Append(updates, updated)
    /\ nextRef' = nextRef + 1
    /\ UNCHANGED <<activeChapterIndex, isGenerating, isGeneratingCover, isRewriting,
                   generating, regenerating, rewriting, selectionRange, returned>>
    /\ UNCHANGED <<exportVars, wizardVars, navVars>>

\* A chapter of the sidebar is clicked.
setActiveChapterIndex ==
    /\ ControlsReachable
    /\ \E i \in 0..(Len(activeBook[1].chapters) - 1) :
          /\ i # activeChapterIndex
          /\ activeChapterIndex' = i
    /\ UNCHANGED <<activeBook, isGenerating, isGeneratingCover, isRewriting, generating,
                   regenerating, rewriting, updates, nextRef, selectionRange, returned>>
    /\ UNCHANGED <<exportVars, wizardVars, navVars>>

\* onSelect of the textarea: a selection is made or dropped.
handleSelect ==
    /\ ControlsReachable
    /\ ~isGenerating
    /\ ~isChapterEmpty(ActiveChapter.content)
    /\ \E range \in Selections \cup {<<>>} :
          /\ range # selectionRange
          /\ selectionRange' = range
    /\ UNCHANGED <<activeBook, activeChapterIndex, isGenerating, isGeneratingCover, isRewriting,
                   generating, regenerating, rewriting, updates, nextRef, returned>>
    /\ UNCHANGED <<exportVars, wizardVars, navVars>>

\* generateContent up to its await.
generateContent ==
    /\ ControlsReachable
    /\ ~isGenerating
    /\ Len(updates) < MaxUpdates
    /\ isGenerating' = TRUE
    /\ generating' = <<[book |-> activeBook[1], index |-> activeChapterIndex,
                        prev |-> IF activeChapterIndex > 0
                                 THEN activeBook[1].chapters[activeChapterIndex].summary
                                 ELSE "undefined"]>>
    /\ UNCHANGED <<activeBook, activeChapterIndex, isGeneratingCover, isRewriting,
                   regenerating, rewriting, updates, nextRef, selectionRange, returned>>
    /\ UNCHANGED <<exportVars, wizardVars, navVars>>

\* generateChapterContent settles: the rest of generateContent, with the
\* Book and index of the render that started it.  alert() changes no state.
generateContentSettled ==
    /\ generating # <<>>
    /\ \E reply \in ChapterReplies :
          LET call == generating[1]
              content == generateChapterContent(apiKey, reply)
              first == handleContentChange(call.book, call.index, content, nextRef + 1)
              ref == call.book.chapters[call.index + 1].ref
              second == MarkGenerated(call.book, ref)
          IN  /\ returned' = content
              /\ IF ContentRefused(content)
                 THEN UNCHANGED <<activeBook, updates, nextRef, regenerating, rewriting>>
                 ELSE /\ activeBook' = <<second>>
                      /\ updates' = updates \o <<first, second>>
                      /\ nextRef' = nextRef + 1
                      /\ regenerating' = MarkInCall(regenerating, ref)
                      /\ rewriting' = MarkInCall(rewriting, ref)
    /\ isGenerating' = FALSE
    /\ generating' = <<>>
    /\ UNCHANGED <<activeChapterIndex, isGeneratingCover, isRewriting, selectionRange>>
    /\ UNCHANGED <<exportVars, wizardVars, navVars>>

\* handleRegenerateCover up to its await.
handleRegenerateCover ==
    /\ ControlsReachable
    /\ ~isGeneratingCover
    /\ Len(updates) < MaxUpdates
    /\ isGeneratingCover' = TRUE
    /\ regenerating' = <<[book |-> activeBook[1]]>>
    /\ UNCHANGED <<activeBook, activeChapterIndex, isGenerating, isRewriting, generating,
                   rewriting, updates, nextRef, selectionRange, returned>>
    /\ UNCHANGED <<exportVars, wizardVars, navVars>>

\* generateBookCover settles: the rest of handleRegenerateCover.
coverRegenerated ==
    /\ regenerating # <<>>
    /\ \E reply \in CoverReplies :
          LET newCover == generateBookCover(apiKey, reply)
              updated == [regenerating[1].book EXCEPT !.coverImage = newCover]
          IN  IF newCover # NoCover
              THEN /\ activeBook' = <<updated>>
                   /\ updates' = Append(updates, updated)
              ELSE UNCHANGED <<activeBook, updates>>
    /\ isGeneratingCover' = FALSE
    /\ regenerating' = <<>>
    /\ UNCHANGED <<activeChapterIndex, isGenerating, isRewriting, generating, rewriting,
                   nextRef, selectionRange, returned>>
    /\ UNCHANGED <<exportVars, wizardVars, navVars>>

\* "Rewrite Selection", then "Apply Changes": handleRewrite up to its await.
handleRewrite ==
    /\ ControlsReachable
    /\ selectionRange # <<>>
    /\ ActiveChapter.content # ""
    /\ Trim(Substring(ActiveChapter.content, selectionRange[1], selectionRange[2])) # ""
    /\ Len(updates) < MaxUpdates
    /\ isRewriting' = TRUE
    /\ rewriting' = <<[book |-> activeBook[1], index |-> activeChapterIndex,
                       range |-> selectionRange]>>
    /\ UNCHANGED <<activeBook, activeChapterIndex, isGenerating, isGeneratingCover,
                   generating, regenerating, updates, nextRef, selectionRange, returned>>
    /\ UNCHANGED <<exportVars, wizardVars, navVars>>

\* rewriteText settles: the rest of handleRewrite.
rewriteSettled ==
    /\ rewriting # <<>>
    /\ \E reply \in RewriteReplies :
          LET call == rewriting[1]
              content == call.book.chapters[call.index + 1].content
              rewrittenText == rewriteText(apiKey,
                                  Substring(content, call.range[1], call.range[2]), reply)
              before == Substring(content, 0, call.range[1])
              after == Substring(content, call.range[2], Len(content))
              updated == handleContentChange(call.book, call.index,
                                             before \o rewrittenText \o after, nextRef + 1)
          IN  /\ activeBook' = <<updated>>
              /\ updates' = Append(updates, updated)
    /\ nextRef' = nextRef + 1
    /\ selectionRange' = <<>>
    /\ isRewriting' = FALSE
    /\ rewriting' = <<>>
    /\ UNCHANGED <<activeChapterIndex, isGenerating, isGeneratingCover, generating,
                   regenerating, returned>>
    /\ UNCHANGED <<exportVars, wizardVars, navVars>>

NextEditor ==
    \/ onChange \/ setActiveChapterIndex \/ handleSelect
    \/ generateContent \/ generateContentSettled
    \/ handleRegenerateCover \/ coverRegenerated
    \/ handleRewrite \/ rewriteSettled

\* The Books the Editor is opened on: two chapters, each still empty or
\* already written, with a generated or a placeholder cover.
EditorBooks ==
    {WithRefs(NewBook(generateBookStructure(TRUE, StructReply("json", 2, ""), 0).book,
                      <<[OutlineChapter(0, 0) EXCEPT !.content = c[1], !.isGenerated = (c[1] # "")],
                        [OutlineChapter(1, 0) EXCEPT !.content = c[2], !.isGenerated = (c[2] # "")]>>,
                      cv, NoCover)) :
        c \in {"", LongProse} \X {"", LongProse}, cv \in {NoCover, DataCover("png", ";base64,")}}

\* A Book of the library is opened in the Editor.
InitEditor ==
    /\ book \in {b \in Books : b.chapters = <<>> /\ b.coverImage = NoCover}
    /\ EditorIdle
    /\ apiKey \in BOOLEAN
    /\ structScript = <<>>
    /\ WizardMounted
    /\ ViewIs("EDITOR")
    /\ activeBook \in {<<b>> : b \in EditorBooks}
    /\ activeChapterIndex = 0
    /\ isGenerating = FALSE
    /\ isGeneratingCover = FALSE
    /\ isRewriting = FALSE
    /\ generating = <<>>
    /\ regenerating = <<>>
    /\ rewriting = <<>>
    /\ updates = <<>>
    /\ nextRef = 2
    /\ selectionRange = <<>>
    /\ returned = ""

SpecEditor == InitEditor /\ [][NextEditor]_vars

\* A session of the App: the user makes a Book in the wizard, or opens a
\* Book of the library in the Editor.
InitSession == InitWizard \/ InitEditor

NextSession == NextWizard \/ NextEditor

SpecSession == InitSession /\ [][NextSession]_vars

\* ------------------------------------------------- reading a saved archive
Range(seq) == {seq[k] : k \in 1..Len(seq)}

FileNames(blob) == {e.name : e \in {x \in Range(blob) : ~x.dir}}

HasFile(blob, path) == path \in FileNames(blob)

FileData(blob, path) == (CHOOSE e \in Range(blob) : e.name = path /\ ~e.dir).data

OpfOf(blob) == FileData(blob, <<"OEBPS", "content.opf">>)

NcxOf(blob) == FileData(blob, <<"OEBPS", "toc.ncx">>)

\* Manifest hrefs and nav-point srcs are relative to the folder of the
\* document that holds them, OEBPS.
Resolve(href) == <<"OEBPS">> \o href

ItemsWithId(opf, id) == {k \in 1..Len(opf.manifest) : opf.manifest[k].id = id}

ItemOf(opf, id) == opf.manifest[CHOOSE k \in ItemsWithId(opf, id) : TRUE]

CoverDocHref == <<"Text", "cover.xhtml">>

\* An itemref is a chapter itemref unless it names the cover document.
IsCoverRef(opf, idref) ==
    \E k \in ItemsWithId(opf, idref) : opf.manifest[k].href = CoverDocHref

RECURSIVE ChapterRefsFrom(_, _)
ChapterRefsFrom(opf, k) ==
    IF k > Len(opf.spine) THEN <<>>
    ELSE (IF IsCoverRef(opf, opf.spine[k]) THEN <<>> ELSE <<opf.spine[k]>>)
         \o ChapterRefsFrom(opf, k + 1)

ChapterRefs(opf) == ChapterRefsFrom(opf, 1)

RECURSIVE Join(_, _)
Join(segs, sep) ==
    IF Len(segs) = 0 THEN <<>>
    ELSE IF Len(segs) = 1 THEN segs[1]
    ELSE segs[1] \o <<sep>> \o Join(Tail(segs), sep)

ParagraphTexts(doc) == [k \in 1..Len(doc.body) |-> doc.body[k].text]

\* The document was built from this chapter: its heading is the chapter's
\* title and its paragraphs, joined by newlines, give back the prose.
BuiltFrom(doc, chapter) ==
    /\ doc.kind = "xhtml"
    /\ doc.h1 = chapter.title
    /\ \A k \in 1..Len(doc.body) : doc.body[k].tag = "p"
    /\ Join(ParagraphTexts(doc), NL) = chapter.content

\* The i-th chapter itemref leads, through the manifest, to a file of the
\* archive, and that file is the document of chapter i.
ChapterRefLeadsTo(blob, idref, chapter) ==
    LET opf == OpfOf(blob)
    IN  /\ Cardinality(ItemsWithId(opf, idref)) = 1
        /\ HasFile(blob, Resolve(ItemOf(opf, idref).href))
        /\ BuiltFrom(FileData(blob, Resolve(ItemOf(opf, idref).href)), chapter)

\* C1: in every archive handed to saveAs the chapter itemrefs of the spine
\* are as many as the Book's chapters, and the i-th one points at the
\* document built from chapter i: nothing missing, repeated or reordered.
C1_SpineFollowsChapters ==
    \A r \in 1..Len(saved) :
        LET s == saved[r]
            refs == ChapterRefs(OpfOf(s.blob))
        IN  /\ Len(refs) = Len(s.book.chapters)
            /\ \A i \in 1..Len(refs) : ChapterRefLeadsTo(s.blob, refs[i], s.book.chapters[i])
            /\ \A i, j \in 1..Len(refs) : i # j => refs[i] # refs[j]

\* An export has finished for a Book with a written cover and two chapters
\* that differ.
C1_Witness ==
    /\ Len(saved) > 0
    /\ Len(saved[1].book.chapters) = 2
    /\ saved[1].book.chapters[1].title # saved[1].book.chapters[2].title
    /\ saved[1].book.chapters[1].content # saved[1].book.chapters[2].content
    /\ HasFile(saved[1].blob, Resolve(CoverDocHref))

\* The manifest items whose href names the archive file at path.
ItemsListing(opf, path) ==
    {k \in 1..Len(opf.manifest) : Resolve(opf.manifest[k].href) = path}

\* C2 (as stated): in every archive handed to saveAs, manifest items and
\* archive files correspond one to one: every item has a backing file and
\* every file of the archive is listed by exactly one item.
C2_ManifestArchiveOneToOne ==
    \A r \in 1..Len(saved) :
        LET blob == saved[r].blob
            opf == OpfOf(blob)
        IN  /\ \A k \in 1..Len(opf.manifest) : HasFile(blob, Resolve(opf.manifest[k].href))
            /\ \A f \in FileNames(blob) : Cardinality(ItemsListing(opf, f)) = 1

\* The files of the container format itself: the media-type entry, the
\* container descriptor and the package document that holds the manifest.
PackagingFiles ==
    {<<"mimetype">>, <<"META-INF", "container.xml">>, <<"OEBPS", "content.opf">>}

\* C2 (amended): every manifest item has a backing file, and every file of
\* the archive other than the three packaging files is listed by exactly one
\* manifest item; the three packaging files are written but listed by none.
C2_ManifestListsPublicationFiles ==
    \A r \in 1..Len(saved) :
        LET blob == saved[r].blob
            opf == OpfOf(blob)
        IN  /\ \A k \in 1..Len(opf.manifest) : HasFile(blob, Resolve(opf.manifest[k].href))
            /\ \A f \in FileNames(blob) \ PackagingFiles : Cardinality(ItemsListing(opf, f)) = 1
            /\ \A f \in PackagingFiles : HasFile(blob, f) /\ ItemsListing(opf, f) = {}

\* An export has finished for a Book with a written cover and a chapter: the
\* archive holds image, cover document, chapter, stylesheet and navigation.
C2_Witness ==
    /\ Len(saved) > 0
    /\ Len(saved[1].book.chapters) >= 1
    /\ HasFile(saved[1].blob, <<"OEBPS", "Images", "cover.jpg">>)
    /\ Len(OpfOf(saved[1].blob).manifest) >= 5

\* C3: the navigation document has one nav-point per chapter; the nav-point
\* of chapter i (counted from 1) has playOrder i and its src is the href of
\* the manifest item that the i-th chapter itemref of the spine names, which
\* is the document built from chapter i.
C3_NavFollowsChapters ==
    \A r \in 1..Len(saved) :
        LET s == saved[r]
            opf == OpfOf(s.blob)
            nav == NcxOf(s.blob).navMap
            refs == ChapterRefs(opf)
        IN  /\ Len(nav) = Len(s.book.chapters)
            /\ Len(refs) = Len(s.book.chapters)
            /\ \A i \in 1..Len(nav) :
                  /\ nav[i].playOrder = i
                  /\ ItemsWithId(opf, refs[i]) # {}
                  /\ nav[i].src = ItemOf(opf, refs[i]).href
                  /\ HasFile(s.blob, Resolve(nav[i].src))
                  /\ BuiltFrom(FileData(s.blob, Resolve(nav[i].src)), s.book.chapters[i])

\* An export has finished for a Book of two different chapters: there is a
\* second nav-point.
C3_Witness ==
    /\ Len(saved) > 0
    /\ Len(saved[1].book.chapters) = 2
    /\ saved[1].book.chapters[1] # saved[1].book.chapters[2]
    /\ Len(NcxOf(saved[1].blob).navMap) = 2

\* C4 (as stated): the first entry of every archive handed to saveAs is the
\* media-type entry, with the media type as content, stored; nothing, file
\* or folder, comes before it.
C4_MimetypeFirstStored ==
    \A r \in 1..Len(saved) :
        LET first == saved[r].blob[1]
        IN  /\ first.name = <<"mimetype">>
            /\ ~first.dir
            /\ first.data.kind = "text"
            /\ first.data.text = "application/epub+zip"
            /\ first.compression = "STORE"

\* The cover value is a base64 data URI of an image type the serializer
\* supports (png, jpeg, jpg).
SupportedDataUri(coverImage) ==
    /\ coverImage.scheme = "data:image/"
    /\ coverImage.enc = ";base64,"
    /\ coverImage.subtype \in {"png", "jpeg", "jpg"}

CoverImageFiles(blob) ==
    {f \in FileNames(blob) : Len(f) = 3 /\ f[1] = "OEBPS" /\ f[2] = "Images"}

\* C5: when the cover is a supported data URI the archive holds the decoded
\* image under OEBPS/Images and a cover document showing it, and the first
\* itemref of the spine names that cover document, the chapter itemrefs all
\* coming after it; when no cover document is written every itemref of the
\* spine is a chapter itemref.
C5_CoverFirstInSpine ==
    \A r \in 1..Len(saved) :
        LET s == saved[r]
            opf == OpfOf(s.blob)
            n == Len(s.book.chapters)
        IN  /\ SupportedDataUri(s.book.coverImage) =>
                  /\ \E f \in CoverImageFiles(s.blob) :
                        /\ FileData(s.blob, f).kind = "binary"
                        /\ FileData(s.blob, f).bytes = <<137, 80, 78, 71, 13, 10, 26, 10>>
                        /\ HasFile(s.blob, Resolve(CoverDocHref))
                        /\ FileData(s.blob, Resolve(CoverDocHref)).body[1].src = <<"..", "Images", f[3]>>
                  /\ Len(opf.spine) = n + 1
                  /\ IsCoverRef(opf, opf.spine[1])
                  /\ \A k \in 2..Len(opf.spine) : ~IsCoverRef(opf, opf.spine[k])
            /\ ~HasFile(s.blob, Resolve(CoverDocHref)) =>
                  /\ Len(opf.spine) = n
                  /\ \A k \in 1..Len(opf.spine) :
                        ChapterRefLeadsTo(s.blob, opf.spine[k], s.book.chapters[k])

\* An export has finished for a Book with a jpeg cover and two chapters; the
\* spine has three itemrefs.
C5_Witness ==
    /\ Len(saved) > 0
    /\ saved[1].book.coverImage.subtype = "jpeg"
    /\ SupportedDataUri(saved[1].book.coverImage)
    /\ Len(saved[1].book.chapters) = 2
    /\ Len(OpfOf(saved[1].blob).spine) = 3

NonEmpty(seg) == seg # <<>>

\* The non-empty newline-separated segments of a prose, in order.
NonEmptySegments(content) == SelectSeq(Split(content, NL), NonEmpty)

ChapterPath(i) == <<"OEBPS", "Text", ChapterFile(i)>>

\* C6 (as stated): the document of every chapter has exactly one paragraph
\* element per non-empty newline-separated segment of the chapter's prose,
\* in order, and no paragraph for an empty segment.
C6_OneParagraphPerNonEmptySegment ==
    \A r \in 1..Len(saved) :
        \A i \in 1..Len(saved[r].book.chapters) :
            /\ HasFile(saved[r].blob, ChapterPath(i - 1))
            /\ ParagraphTexts(FileData(saved[r].blob, ChapterPath(i - 1)))
                   = NonEmptySegments(saved[r].book.chapters[i].content)

NoCoverSection(entries) ==
    LET opf == OpfOf(entries)
    IN  /\ CoverImageFiles(entries) = {}
        /\ ~HasFile(entries, Resolve(CoverDocHref))
        /\ \A k \in 1..Len(opf.manifest) :
              /\ opf.manifest[k].id \notin {"cover", "cover-image"}
              /\ opf.manifest[k].href # CoverDocHref
              /\ opf.manifest[k].href[1] # "Images"
        /\ \A k \in 1..Len(opf.spine) : opf.spine[k] # "cover"
        /\ Len(opf.spine) = Len(opf.manifest) - 2

C8_EmptyProseEmptyBody ==
    \A r \in 1..Len(saved) :
        LET s == saved[r]
            opf == OpfOf(s.blob)
            refs == ChapterRefs(opf)
            nav == NcxOf(s.blob).navMap
        IN  \A i \in 1..Len(s.book.chapters) :
                s.book.chapters[i].content = <<>> =>
                    /\ HasFile(s.blob, ChapterPath(i - 1))
                    /\ FileData(s.blob, ChapterPath(i - 1)).h1 = s.book.chapters[i].title
                    /\ FileData(s.blob, ChapterPath(i - 1)).body = <<>>
                    /\ Len(refs) = Len(s.book.chapters)
                    /\ Len(nav) = Len(s.book.chapters)
                    /\ Resolve(ItemOf(opf, refs[i]).href) = ChapterPath(i - 1)
                    /\ Resolve(nav[i].src) = ChapterPath(i - 1)

FixedFiles ==
    {<<"mimetype">>, <<"META-INF", "container.xml">>, <<"OEBPS", "Styles", "style.css">>,
     <<"OEBPS", "content.opf">>, <<"OEBPS", "toc.ncx">>}

\* C9: an export of a Book with zero chapters is handed to saveAs; its
\* archive holds the five fixed files, no chapter document, a spine without
\* chapter itemrefs and an empty navMap.
C9_ZeroChaptersExported ==
    /\ (pc = "await" /\ book.chapters = <<>>) =>
          /\ FixedFiles \subseteq FileNames(zip)
          /\ NcxOf(zip).navMap = <<>>
    /\ \A r \in 1..Len(saved) :
          saved[r].book.chapters = <<>> =>
              /\ FixedFiles \subseteq FileNames(saved[r].blob)
              /\ FileNames(saved[r].blob) \ FixedFiles
                    \subseteq CoverImageFiles(saved[r].blob) \cup {Resolve(CoverDocHref)}
              /\ ChapterRefs(OpfOf(saved[r].blob)) = <<>>
              /\ NcxOf(saved[r].blob).navMap = <<>>

\* An export has finished for a Book with zero chapters.
C9_Witness ==
    /\ Len(saved) > 0
    /\ saved[1].book.chapters = <<>>
    /\ Len(saved[1].blob) > 0
    /\ pc = "idle"

\* What of an archive does not depend on when it was made: its entries
\* without their dates, in order.
Structure(blob) ==
    [k \in 1..Len(blob) |-> [name |-> blob[k].name, dir |-> blob[k].dir, data |-> blob[k].data]]

\* C10: two exports of equal Books give archives with the same entries, the
\* same manifest, the same spine and the same navigation order, and the same
\* download name, whatever the clock read at each export.
C10_ExportDeterministic ==
    \A r1, r2 \in 1..Len(saved) :
        saved[r1].book = saved[r2].book =>
            /\ Range(Structure(saved[r1].blob)) = Range(Structure(saved[r2].blob))
            /\ OpfOf(saved[r1].blob).manifest = OpfOf(saved[r2].blob).manifest
            /\ OpfOf(saved[r1].blob).spine = OpfOf(saved[r2].blob).spine
            /\ NcxOf(saved[r1].blob).navMap = NcxOf(saved[r2].blob).navMap
            /\ saved[r1].name = saved[r2].name

\* The same Book has been exported twice, at different clock readings, with
\* a cover and two chapters.
C10_Witness ==
    /\ Len(saved) = 2
    /\ saved[1].book = saved[2].book
    /\ saved[1].blob[1].date # saved[2].blob[1].date
    /\ Len(saved[1].book.chapters) = 2
    /\ SupportedDataUri(saved[1].book.coverImage)

\* C11: no step of an export, successful or failed, changes the Book: title,
\* author, cover, chapter list, chapter order and chapter fields stay as they
\* were before the call.
C11_ExportKeepsBook == [][book' = book]_vars

\* On a Book of two chapters one export has been saved and another has
\* failed.
C11_Witness ==
    /\ Len(saved) >= 1
    /\ alerts >= 1
    /\ Len(book.chapters) = 2
    /\ saved[1].book = book


\* --------------------------------------------------- reading a wizard run
\* The promises of a run settle: every awaited call returns or throws.
SpecWizardFair == SpecWizard /\ WF_vars(NextWizard)

\* The result of the run's structure request.
StructureResult == generateBookStructure(apiKey, structScript[1], clock)

Submitted == wpc # "idle"

ChapterRequests == SelectSeq(requests, LAMBDA q : q.op = "chapter")

StructureRequests == SelectSeq(requests, LAMBDA q : q.op = "structure")

PercentUpdates == SelectSeq(progress, LAMBDA u : u.kind = "percent")

\* The updates announcing the drafting of a chapter.
ChapterStepUpdates == SelectSeq(progress, LAMBDA u : u.kind = "step" /\ u.chapter >= 0)

ChapterPercentUpdates == SelectSeq(progress, LAMBDA u : u.kind = "percent" /\ u.chapter >= 0)

\* The completion call failed, or its prose is empty or shorter than the
\* minimum length.
DraftFailed(reply) == ~reply.ok \/ Len(reply.text) < MinContentLength

DraftsSucceeded == \A j \in 1..Len(replies) : ~DraftFailed(replies[j])

\* C12: when the drafting of chapter k fails (the call fails or returns
\* empty or too-short prose), no prose request is issued for a chapter with
\* a greater index and the run does not end Complete.
C12_FailedDraftStopsRun ==
    \A j \in 1..Len(replies) :
        DraftFailed(replies[j]) =>
            /\ \A q \in 1..Len(ChapterRequests) : ChapterRequests[q].chapter <= j - 1
            /\ status # "complete"

\* The chapters the wizard holds: those drafted so far and those of the
\* Book it hands over.
WizardChapters ==
    Range(written) \cup UNION {Range(b.chapters) : b \in Range(generatedBook)}

\* C13: a chapter is marked generated only if its prose passed the
\* minimum-length check; a chapter holding empty prose or a failure or
\* placeholder message is never marked generated.
C13_GeneratedOnlyIfValid ==
    \A ch \in WizardChapters : ch.isGenerated => Len(ch.content) >= MinContentLength

C15_EmptyOutlineRejected ==
    /\ apiKey /\ structScript[1].kind \in {"json", "nochapters"} /\ structScript[1].n = 0
           => status # "complete"
    /\ status = "complete" => Len(generatedBook[1].chapters) > 0

\* The answers of the provider that fail twice and then succeed.
TransientTwice == Len(structScript) = 3

\* C16: when the call fails transiently on attempts 1 and 2 and would
\* succeed on attempt 3, the caller receives the success value; the call is
\* never made more than 3 times.
C16_RetriesTransient ==
    /\ structCalls <= 3
    /\ apiKey /\ TransientTwice /\ wpc \notin {"idle", "structure"} =>
           /\ status # "error"
           /\ partialBook = generateBookStructure(apiKey, structScript[3], clock).book

\* The message carries one of the auth or quota markers of the classifier.
AuthOrQuota(msg) == Classify(msg) \in {AuthDetails, QuotaDetails}

KindOf(msg) ==
    IF msg = MissingKeyMessage \/ Includes(msg, "API_KEY_MISSING") \/ Includes(msg, "AUTH_ERROR")
    THEN AuthDetails
    ELSE IF Includes(msg, "QUOTA") \/ Includes(msg, "429") THEN QuotaDetails
    ELSE GenericDetails

\* C18: the failure that aborts a run is classified by its message into
\* exactly one of auth (a missing API key included), quota and generic.
C18_ThreeWayClassification ==
    status = "error" => errorDetails = KindOf(thrown)

\* C19: within a run the reported percent never decreases, for every number
\* of chapters, and 100 is reported only as the last update of a run that
\* completed.
C19_PercentMonotone ==
    /\ \A j \in 1..(Len(PercentUpdates) - 1) :
           PercentUpdates[j].percent <= PercentUpdates[j + 1].percent
    /\ \A j \in 1..Len(progress) :
           progress[j].kind = "percent" /\ progress[j].percent >= 100 =>
               progress[j].percent = 100 /\ j = Len(progress) /\ status = "complete"

C19_Witness ==
    /\ status = "complete"
    /\ Len(written) = 3
    /\ [j \in 1..Len(PercentUpdates) |-> PercentUpdates[j].percent] = <<5, 15, 20, 43, 66, 95, 100>>

\* C20: a completed run whose structure response held N chapter outlines
\* emitted exactly N chapter-drafting updates, one per chapter in index
\* order 0..N-1, all of them before the final 100% update.
C20_OneUpdatePerChapter ==
    status = "complete" =>
        LET N == structScript[1].n
        IN  /\ [j \in 1..Len(ChapterStepUpdates) |-> ChapterStepUpdates[j].chapter]
                   = [j \in 1..N |-> j - 1]
            /\ [j \in 1..Len(ChapterPercentUpdates) |-> ChapterPercentUpdates[j].chapter]
                   = [j \in 1..N |-> j - 1]
            /\ progress[Len(progress)] = PercentUpdate(100, -1)

C20_Witness ==
    /\ status = "complete"
    /\ structScript[1].n = 3
    /\ Len(ChapterStepUpdates) = 3
    /\ ChapterStepUpdates[3].label = "Writing Chapter 3: Title 3"


\* ------------------------------------------- references inside an archive
\* A relative reference read from the folder of the document holding it:
\* ".." goes to the parent folder, any other step goes down.
RECURSIVE ResolveIn(_, _)
ResolveIn(folder, href) ==
    IF href = <<>> THEN folder
    ELSE IF Head(href) = ".." THEN ResolveIn(ParentFolder(folder), Tail(href))
    ELSE ResolveIn(Append(folder, Head(href)), Tail(href))

ManifestIds(opf) == {opf.manifest[k].id : k \in 1..Len(opf.manifest)}

\* The chapter and cover documents of an archive.
Documents(blob) == {e \in Range(blob) : ~e.dir /\ e.data.kind = "xhtml"}

ImageSources(doc) == {doc.body[k].src : k \in {j \in 1..Len(doc.body) : doc.body[j].tag = "img"}}

\* C26: a saved archive has no dangling internal reference: spine idrefs and
\* the metadata cover reference name manifest items, manifest hrefs and
\* nav-point sources name files of the archive, and the stylesheet link and
\* image sources of every chapter and cover document lead, from the
\* document's own folder, to files of the archive.
C26_NoDanglingReference ==
    \A r \in 1..Len(saved) :
        LET blob == saved[r].blob
            opf == OpfOf(blob)
        IN  /\ \A k \in 1..Len(opf.spine) : opf.spine[k] \in ManifestIds(opf)
            /\ opf.metadata.cover \in ManifestIds(opf)
            /\ \A k \in 1..Len(opf.manifest) : HasFile(blob, Resolve(opf.manifest[k].href))
            /\ \A k \in 1..Len(NcxOf(blob).navMap) : HasFile(blob, Resolve(NcxOf(blob).navMap[k].src))
            /\ \A d \in Documents(blob) :
                  /\ HasFile(blob, ResolveIn(ParentFolder(d.name), d.data.stylesheet))
                  /\ \A src \in ImageSources(d.data) :
                        HasFile(blob, ResolveIn(ParentFolder(d.name), src))


\* C21: chapter drafting is sequential: at most one chapter request is in
\* flight, the request for chapter i+1 is made only after the one for
\* chapter i has returned, requests are made in index order 0..N-1 and only
\* after the structure request has completed.
C21_DraftingSequential ==
    /\ Len(ChapterRequests) - Len(replies) \in {0, 1}
    /\ \A j \in 1..Len(ChapterRequests) : ChapterRequests[j].chapter = j - 1
    /\ Len(ChapterRequests) <= Len(partialBook.chapters)
    /\ ChapterRequests # <<>> => StructureResult.ok /\ wpc \notin {"idle", "structure"}

\* The second chapter request is in flight while the cover request is too.
C21_Witness ==
    /\ Len(ChapterRequests) = 2
    /\ Len(replies) = 1
    /\ coverPromise.state = "pending"

\* C24: a submitted run reaches Complete or Failed, never both; Complete
\* carries a Book and comes only after the outline, every chapter and the
\* cover join have finished; Failed carries a classified error.
C24_RunTerminates ==
    /\ (Submitted ~> status \in {"complete", "error"})
    /\ [](status = "complete" =>
             /\ generatedBook # <<>>
             /\ thrown = ""
             /\ StructureResult.ok
             /\ Len(replies) = Len(partialBook.chapters)
             /\ Len(written) = Len(partialBook.chapters)
             /\ coverPromise.state = "resolved")
    /\ [](status = "error" =>
             /\ generatedBook = <<>>
             /\ thrown # ""
             /\ errorDetails \in {AuthDetails, QuotaDetails, GenericDetails})
    /\ [][(status \in {"complete", "error"}) => (status' = status)]_vars

C24_Witness ==
    /\ status = "complete"
    /\ Len(written) = 2
    /\ coverPromise.value = DataCover("png", ";base64,")
    /\ generatedBook[1].coverImage = coverPromise.value

\* C25: when the user cancels before chapter i+1 is started, no prose
\* request is made for chapter i+1 or a later one and the run does not end
\* Complete.
C25_CancelStopsDrafting ==
    leftAt # -1 /\ leftAt < Len(StructureResult.book.chapters) =>
        /\ \A j \in 1..Len(ChapterRequests) : ChapterRequests[j].chapter < leftAt
        /\ status # "complete"

\* C28: generateChapterContent returns a non-empty string for every outcome
\* of the provider call, so a run does not fail once a chapter request has
\* been made and every chapter of a Complete Book has non-empty content.
C28_ChapterContentNeverRaises ==
    /\ \A hasKey \in BOOLEAN, reply \in ChapterReplies :
           generateChapterContent(hasKey, reply) # ""
    /\ \A j \in 1..Len(written) : written[j].content # ""
    /\ ChapterRequests # <<>> => status # "error"
    /\ status = "complete" =>
           \A j \in 1..Len(generatedBook[1].chapters) : generatedBook[1].chapters[j].content # ""

\* A run completed although the provider failed a chapter request and
\* answered another with an empty text.
C28_Witness ==
    /\ status = "complete"
    /\ Len(replies) = 2
    /\ ~replies[1].ok
    /\ replies[2] = [ok |-> TRUE, text |-> ""]
    /\ generatedBook[1].chapters[1].content = "Failed to generate content. Please try again."
    /\ generatedBook[1].chapters[2].content = "Content generation returned empty."


\* --------------------------------------------------- reading the Editor
\* The generateContent call, or the handleRewrite call, returns in this step.
GenerationReturns == generating # <<>> /\ generating' = <<>>

RewriteReturns == rewriting # <<>> /\ rewriting' = <<>>

\* What of a chapter list is fixed by the outline.
Outline(chapters) ==
    [k \in 1..Len(chapters) |->
        [id |-> chapters[k].id, title |-> chapters[k].title, summary |-> chapters[k].summary]]

\* C22: a chapter prose request carries the summary of the chapter just
\* before it in the outline and nothing else of earlier chapters, and the
\* request for chapter 0 carries no previous context; in the wizard's loop
\* and in the Editor's generateContent.
C22_PreviousSummaryOnly ==
    /\ \A j \in 1..Len(ChapterRequests) :
           LET i == ChapterRequests[j].chapter
           IN  ChapterRequests[j].prev =
                   IF i > 0 THEN partialBook.chapters[i].summary ELSE "undefined"
    /\ generating # <<>> =>
           LET i == generating[1].index
           IN  generating[1].prev =
                   IF i > 0 THEN activeBook[1].chapters[i].summary ELSE "undefined"

\* The wizard has requested the third chapter with the summary of the second.
C22_Witness ==
    /\ Len(ChapterRequests) = 3
    /\ ChapterRequests[3].prev = "Summary 2"
    /\ ChapterRequests[2].prev = "Summary 1"
    /\ ChapterRequests[1].prev = "undefined"

\* C23: the chapters drafted by a run, and the Book it assembles, follow the
\* outline entry by entry (same number, same id, title and summary), and no
\* Editor operation adds, removes or reorders the chapters of the open Book.
C23_ChapterOrderFixed ==
    /\ [](Outline(written) = SubSeq(Outline(partialBook.chapters), 1, Len(written)))
    /\ [](status = "complete" =>
             Outline(generatedBook[1].chapters) = Outline(partialBook.chapters))
    /\ [](\A j \in 1..Len(updates) :
             Outline(updates[j].chapters) = Outline(activeBook[1].chapters))
    /\ [][(activeBook # <<>>) =>
             (Outline(activeBook'[1].chapters) = Outline(activeBook[1].chapters))]_vars

\* The Editor has changed the second chapter and the cover of a Book of two
\* chapters.
C23_Witness ==
    /\ Len(updates) >= 2
    /\ activeBook[1].coverImage # updates[1].coverImage
    /\ activeBook[1].chapters[2].ref > 2
    /\ Len(activeBook[1].chapters) = 2

\* C27: when generateContent got prose of at least 50 characters, the Book
\* of its final update has the generated prose as the chapter's content and
\* the chapter marked generated, every other chapter as it was.
C27_GeneratedContentKept ==
    [][(GenerationReturns /\ Len(returned') >= MinContentLength) =>
          LET a == generating[1].index + 1
              final == updates'[Len(updates')]
          IN  /\ updates' # updates
              /\ activeBook'[1] = final
              /\ final.chapters[a].content = returned'
              /\ final.chapters[a].isGenerated
              /\ \A k \in (1..Len(final.chapters)) \ {a} :
                     final.chapters[k] = activeBook[1].chapters[k]]_vars

\* C29: when a generation or a rewrite writes its result, what was changed
\* in the Book while it was in flight is still there: the cover and every
\* chapter but the one the request was started for are as they were just
\* before the write.
C29_NoLostUpdate ==
    [][((GenerationReturns \/ RewriteReturns) /\ updates' # updates) =>
          LET a == IF GenerationReturns THEN generating[1].index + 1
                   ELSE rewriting[1].index + 1
          IN  /\ activeBook'[1].coverImage = activeBook[1].coverImage
              /\ \A k \in (1..Len(activeBook[1].chapters)) \ {a} :
                    /\ activeBook'[1].chapters[k].content = activeBook[1].chapters[k].content
                    /\ activeBook'[1].chapters[k].isGenerated
                           = activeBook[1].chapters[k].isGenerated]_vars

\* C30: when generateContent got an empty string or fewer than 50
\* characters, no update is sent and the Book stays as it was; in every case
\* isGenerating is false once generateContent has finished.
C30_FailedGenerationKeepsBook ==
    [][GenerationReturns =>
          /\ isGenerating' = FALSE
          /\ (returned' = "" \/ Len(returned') < MinContentLength) =>
                 (updates' = updates /\ activeBook' = activeBook)]_vars

\* A generation on a written chapter has failed with short prose.
C30_Witness ==
    /\ returned = "Too short."
    /\ generating = <<>>
    /\ ~isGenerating
    /\ updates = <<>>
    /\ activeBook # <<>>
    /\ activeBook[1].chapters[activeChapterIndex + 1].content = LongProse

====
